---- MODULE Spec2Model ----
(***************************************************************************)
(* git2feed: the update-generation pipeline of src/src/generate.js         *)
(* (generateUpdates, lines 15-247) as a state machine over the four        *)
(* output files, the git history and the wall clock.                       *)
(*                                                                         *)
(* Text is modelled character by character: a text is a sequence of        *)
(* one-character strings, so that trim, split, replace and the regular     *)
(* expressions of the source are computed as the source computes them.     *)
(* A date key (the "yyyy-MM-dd" string of date-fns format) is abstracted   *)
(* to one digit character; the order of the digits is the order that       *)
(* localeCompare gives the date strings.                                   *)
(***************************************************************************)
EXTENDS Integers, Sequences, FiniteSets, TLC

(* ------------------------------ bounds --------------------------------- *)
MaxCommits == 2      \* commits the history may hold
MaxDate    == 2      \* calendar dates 1..MaxDate
MaxCalls   == 2      \* calls of generateUpdates in one behaviour

(* --------------------------- characters -------------------------------- *)
NL == "\n"
SP == " "

\* JavaScript \s restricted to the alphabet of the model
IsWs(c) == c \in {SP, NL}

\* String.prototype.toLowerCase on one character
LowerChar(c) ==
  CASE c = "A" -> "a" [] c = "B" -> "b" [] c = "C" -> "c" [] c = "D" -> "d"
    [] c = "E" -> "e" [] c = "F" -> "f" [] c = "G" -> "g" [] c = "H" -> "h"
    [] c = "I" -> "i" [] c = "J" -> "j" [] c = "K" -> "k" [] c = "L" -> "l"
    [] c = "M" -> "m" [] c = "N" -> "n" [] c = "O" -> "o" [] c = "P" -> "p"
    [] c = "Q" -> "q" [] c = "R" -> "r" [] c = "S" -> "s" [] c = "T" -> "t"
    [] c = "U" -> "u" [] c = "V" -> "v" [] c = "W" -> "w" [] c = "X" -> "x"
    [] c = "Y" -> "y" [] c = "Z" -> "z"
    [] OTHER -> c

ToLowerCase(s) == [i \in 1..Len(s) |-> LowerChar(s[i])]

\* s.slice(i-1): the suffix of s that starts at the 1-based position i
Drop(s, i) == IF i > Len(s) THEN << >> ELSE SubSeq(s, i, Len(s))

\* first position >= i that does not hold whitespace (Len(s)+1 if none)
RECURSIVE SkipWs(_, _)
SkipWs(s, i) == IF i <= Len(s) /\ IsWs(s[i]) THEN SkipWs(s, i + 1) ELSE i

\* last position <= i that does not hold whitespace (0 if none)
RECURSIVE SkipWsBack(_, _)
SkipWsBack(s, i) == IF i >= 1 /\ IsWs(s[i]) THEN SkipWsBack(s, i - 1) ELSE i

\* String.prototype.trim
Trim(s) ==
  LET a == SkipWs(s, 1)
      b == SkipWsBack(s, Len(s))
  IN  IF a > b THEN << >> ELSE SubSeq(s, a, b)

\* does the text p occur in s at position i
MatchAt(s, i, p) ==
  /\ i + Len(p) - 1 <= Len(s)
  /\ \A k \in 1..Len(p) : s[i + k - 1] = p[k]

\* String.prototype.startsWith
StartsWith(s, p) == MatchAt(s, 1, p)

\* Array.prototype.join
RECURSIVE Join(_, _)
Join(parts, sep) ==
  IF parts = << >> THEN << >>
  ELSE IF Len(parts) = 1 THEN parts[1]
  ELSE parts[1] \o sep \o Join(Tail(parts), sep)

\* Array.from(new Set(xs)): first occurrences, in insertion order
RECURSIVE Dedup(_)
Dedup(xs) ==
  IF xs = << >> THEN << >>
  ELSE LET r == Dedup(SubSeq(xs, 1, Len(xs) - 1))
           x == xs[Len(xs)]
       IN  IF \E k \in 1..Len(r) : r[k] = x THEN r ELSE Append(r, x)

\* s.split("\n")
RECURSIVE SplitLines(_)
SplitLines(s) ==
  IF \A k \in 1..Len(s) : s[k] # NL THEN << s >>
  ELSE LET i == CHOOSE k \in 1..Len(s) :
                  s[k] = NL /\ \A j \in 1..(k - 1) : s[j] # NL
       IN  << SubSeq(s, 1, i - 1) >> \o SplitLines(Drop(s, i + 1))

\* the match of /\n\s*\n/ that starts at position i, as its last position
\* (0 when the expression does not match at i): a newline, then the longest
\* run of whitespace that still ends in a newline
BlankEnd(s, i) ==
  IF i > Len(s) \/ s[i] # NL THEN 0
  ELSE LET j  == SkipWs(s, i + 1) - 1
           ks == {k \in (i + 1)..j : s[k] = NL}
       IN  IF ks = {} THEN 0 ELSE CHOOSE k \in ks : \A m \in ks : m <= k

\* s.split(/\n\s*\n/)
RECURSIVE SplitBlank(_)
SplitBlank(s) ==
  LET starts == {i \in 1..Len(s) : BlankEnd(s, i) # 0}
  IN  IF starts = {} THEN << s >>
      ELSE LET i == CHOOSE k \in starts : \A m \in starts : k <= m
           IN  << SubSeq(s, 1, i - 1) >> \o SplitBlank(Drop(s, BlankEnd(s, i) + 1))

(* ------------------------- message filter ------------------------------ *)
\* the characters the regular expression class \w accepts
WordChars ==
  {"a", "b", "c", "d", "e", "f", "g", "h", "i", "j", "k", "l", "m",
   "n", "o", "p", "q", "r", "s", "t", "u", "v", "w", "x", "y", "z",
   "A", "B", "C", "D", "E", "F", "G", "H", "I", "J", "K", "L", "M",
   "N", "O", "P", "Q", "R", "S", "T", "U", "V", "W", "X", "Y", "Z",
   "0", "1", "2", "3", "4", "5", "6", "7", "8", "9", "_"}

\* the alternatives of /^(chore|ci|build|refactor)\b/
DefaultRejectPrefixes ==
  { <<"c","h","o","r","e">>, <<"c","i">>, <<"b","u","i","l","d">>,
    <<"r","e","f","a","c","t","o","r">> }

\* /^(chore|ci|build|refactor)\b/.test(s)
RejectPrefixTest(s) ==
  \E p \in DefaultRejectPrefixes :
    /\ StartsWith(s, p)
    /\ (Len(s) = Len(p) \/ s[Len(p) + 1] \notin WordChars)

defaultKeep(m) ==
  LET s == ToLowerCase(m)
  IN  IF StartsWith(s, <<"m","e","r","g","e">>) THEN FALSE
      ELSE IF RejectPrefixTest(s) THEN FALSE
      ELSE TRUE

\* new RegExp(pattern, "i").test(m) for a pattern without metacharacters:
\* the pattern occurs somewhere in m, letter case ignored
RegExpTestI(pattern, m) ==
  \E i \in 1..(Len(m) + 1) : MatchAt(ToLowerCase(m), i, ToLowerCase(pattern))

\* keepMsg that asks the default filter too when a pattern is supplied
keepMsg_Combined(keepPattern, m) ==
  IF keepPattern # << >>
  THEN RegExpTestI(keepPattern, m) /\ defaultKeep(m)
  ELSE defaultKeep(m)

\* keepPattern = options.keep || null ; the empty text stands for null
keepMsg(keepPattern, m) ==
  IF keepPattern # << >> THEN RegExpTestI(keepPattern, m) ELSE defaultKeep(m)

(* ------------------------- message redactor ---------------------------- *)
ConfidentialMarker ==
  <<"-","-","c","o","n","f","i","d","e","n","t","i","a","l","-","-">>

\* option.split(",")
RECURSIVE SplitComma(_)
SplitComma(s) ==
  IF \A k \in 1..Len(s) : s[k] # "," THEN << s >>
  ELSE LET i == CHOOSE k \in 1..Len(s) :
                  s[k] = "," /\ \A j \in 1..(k - 1) : s[j] # ","
       IN  << SubSeq(s, 1, i - 1) >> \o SplitComma(Drop(s, i + 1))

\* option ? option.split(",").map(toLowerCase).filter(Boolean) : []
TermItems(option) ==
  IF option = << >> THEN << >>
  ELSE SelectSeq([i \in 1..Len(SplitComma(option)) |->
                    ToLowerCase(SplitComma(option)[i])],
                 LAMBDA t : t # << >>)

\* the positions of s at which a regular expression for term matches, the
\* letter case ignored; dotAny tells whether a dot of the term stands for
\* any character (an unescaped term) or for a dot (an escaped one)
TermMatches(s, term, dotAny) ==
  {i \in 1..(Len(s) - Len(term) + 1) :
     \A k \in 1..Len(term) :
       \/ LowerChar(s[i + k - 1]) = LowerChar(term[k])
       \/ dotAny /\ term[k] = "."}

\* ReplaceAllI with the term used as a regular expression as it stands: a
\* dot of the term is met by any character
RECURSIVE ReplaceAllI_Unescaped(_, _, _)
ReplaceAllI_Unescaped(s, term, repl) ==
  IF TermMatches(s, term, TRUE) = {} THEN s
  ELSE LET i == CHOOSE k \in TermMatches(s, term, TRUE) :
                  \A m \in TermMatches(s, term, TRUE) : k <= m
       IN  SubSeq(s, 1, i - 1) \o repl
             \o ReplaceAllI_Unescaped(Drop(s, i + Len(term)), term, repl)

\* ReplaceAllI that, when it deletes an occurrence, deletes the whitespace
\* that follows it too
RECURSIVE ReplaceAllI_EatSpace(_, _, _)
ReplaceAllI_EatSpace(s, term, repl) ==
  IF TermMatches(s, term, FALSE) = {} THEN s
  ELSE LET i == CHOOSE k \in TermMatches(s, term, FALSE) :
                  \A m \in TermMatches(s, term, FALSE) : k <= m
           rest == Drop(s, i + Len(term))
       IN  SubSeq(s, 1, i - 1) \o repl
             \o ReplaceAllI_EatSpace(
                  IF repl = << >> THEN Drop(rest, SkipWs(rest, 1)) ELSE rest,
                  term, repl)

\* processed.replace(new RegExp(escapedTerm, "gi"), repl): every occurrence
\* of the literal term, letter case ignored, scanning from the left and
\* resuming after each replaced occurrence
RECURSIVE ReplaceAllI(_, _, _)
ReplaceAllI(s, term, repl) ==
  IF TermMatches(s, term, FALSE) = {} THEN s
  ELSE LET i == CHOOSE k \in TermMatches(s, term, FALSE) :
                  \A m \in TermMatches(s, term, FALSE) : k <= m
       IN  SubSeq(s, 1, i - 1) \o repl
             \o ReplaceAllI(Drop(s, i + Len(term)), term, repl)

\* StripBranchPrefix that strips every leading bracket group, not only the
\* first one
RECURSIVE StripBranchPrefix_AllGroups(_)
StripBranchPrefix_AllGroups(s) ==
  LET i == SkipWs(s, 1)
  IN  IF i > Len(s) \/ s[i] # "[" \/ \A k \in (i + 1)..Len(s) : s[k] # "]"
      THEN s
      ELSE LET j == CHOOSE k \in (i + 1)..Len(s) :
                      s[k] = "]" /\ \A m \in (i + 1)..(k - 1) : s[m] # "]"
               c == SkipWs(s, j + 1)
               e == IF c <= Len(s) /\ s[c] = ":" THEN c + 1 ELSE j + 1
           IN  StripBranchPrefix_AllGroups(Drop(s, SkipWs(s, e)))

\* processed.replace(/^\s*\[[^\]]*\](?:\s*:)?\s*/, "")
StripBranchPrefix(s) ==
  LET i == SkipWs(s, 1)
  IN  IF i > Len(s) \/ s[i] # "[" \/ \A k \in (i + 1)..Len(s) : s[k] # "]"
      THEN s
      ELSE LET j == CHOOSE k \in (i + 1)..Len(s) :
                      s[k] = "]" /\ \A m \in (i + 1)..(k - 1) : s[m] # "]"
               c == SkipWs(s, j + 1)
               e == IF c <= Len(s) /\ s[c] = ":" THEN c + 1 ELSE j + 1
           IN  Drop(s, SkipWs(s, e))

\* the for-loops over confidentialItems and hideItems
RECURSIVE ReplaceTerms(_, _, _)
ReplaceTerms(s, terms, repl) ==
  IF terms = << >> THEN s
  ELSE ReplaceTerms(ReplaceAllI(s, terms[1], repl), Tail(terms), repl)

\* processMessage that deletes the hide terms before it replaces the
\* confidential terms
processMessage_HideFirst(msg, cfg) ==
  LET p1 == IF cfg.stripBranch THEN StripBranchPrefix(msg) ELSE msg
      p2 == ReplaceTerms(p1, TermItems(cfg.hide), << >>)
      p3 == ReplaceTerms(p2, TermItems(cfg.confidential), ConfidentialMarker)
  IN  Trim(p3)

processMessage(msg, cfg) ==
  LET p1 == IF cfg.stripBranch THEN StripBranchPrefix(msg) ELSE msg
      p2 == ReplaceTerms(p1, TermItems(cfg.confidential), ConfidentialMarker)
      p3 == ReplaceTerms(p2, TermItems(cfg.hide), << >>)
  IN  Trim(p3)

(* ------------------------------ commits -------------------------------- *)
Dates == 1..MaxDate

\* the commit subjects the history draws from: a plain message and one
\* the default filter rejects
Messages == { <<"a">>, <<"c","i">> }

\* format(new Date(c.date), "yyyy-MM-dd"), one digit standing for the key
DateKey(d) == << CASE d = 1 -> "1" [] d = 2 -> "2" [] d = 3 -> "3"
                   [] d = 4 -> "4" [] OTHER -> "5" >>

\* git.log({maxCount, since}).all : newest first, commits not older than
\* the cutoff (since = 0 stands for no cutoff), at most maxCount of them
GitLog(history, since, maxCount) ==
  LET inWindow == SelectSeq(history, LAMBDA c : c.date >= since)
  IN  SubSeq(inWindow, 1, IF Len(inWindow) < maxCount THEN Len(inWindow)
                          ELSE maxCount)

(* ------------------------------- files --------------------------------- *)
NoTxt   == [exists |-> FALSE, content |-> << >>]
NoIndex == [exists |-> FALSE, parses |-> FALSE, seen |-> << >>]
NoJson  == [exists |-> FALSE, updated_at |-> 0, items |-> << >>]
NoRss   == [exists |-> FALSE, blank |-> FALSE, updated |-> 0, items |-> << >>]

TxtOf(content) == [exists |-> TRUE, content |-> content]
\* IndexOf that writes a text JSON.parse rejects
IndexOf_Unparsable(ids) == [exists |-> TRUE, parses |-> FALSE, seen |-> ids]

\* JSON.stringify({ seen: ids }, null, 2)
IndexOf(ids)   == [exists |-> TRUE, parses |-> TRUE, seen |-> ids]
\* JsonOf that writes the items in the opposite order
JsonOf_Reversed(t, items) ==
  [exists |-> TRUE, updated_at |-> t,
   items |-> [i \in 1..Len(items) |-> items[Len(items) + 1 - i]]]

\* JSON.stringify({ updated_at, items }, null, 2)
JsonOf(t, items) == [exists |-> TRUE, updated_at |-> t, items |-> items]
\* fs.writeFileSync(RSS_FILE, "")
BlankRss == [exists |-> TRUE, blank |-> TRUE, updated |-> 0, items |-> << >>]

\* feed.addItem for every item, then feed.rss2(), with siteUrl "" ; the
\* bullet character is written "*"
RssOf(t, items) ==
  [exists |-> TRUE, blank |-> FALSE, updated |-> t,
   items |-> [i \in 1..Len(items) |->
     [title |-> items[i].date,
      id |-> <<"/","u","p","d","a","t","e","s","#">> \o items[i].date,
      description |->
        Join([k \in 1..Len(items[i].points) |->
                <<"*", SP>> \o items[i].points[k]], << NL >>)]]]

(* ------------------------- grouping and parsing ------------------------ *)
\* grouped[d] : the redacted messages of the new commits of date d, in
\* the order of the log
Grouped(newCommits, d, cfg) ==
  LET ofDate == SelectSeq(newCommits, LAMBDA c : c.date = d)
  IN  [i \in 1..Len(ofDate) |-> processMessage(Trim(ofDate[i].message), cfg)]

\* [date, ...Array.from(new Set(msgs)).map((m) => `- ${m}`)].join("\n")
BlockText(date, msgs) ==
  LET points == Dedup(msgs)
  IN  Join(<< date >> \o [i \in 1..Len(points) |-> <<"-", SP>> \o points[i]],
           << NL >>)

\* BlockTexts with the dates in ascending order
RECURSIVE BlockTexts_Ascending(_, _, _)
BlockTexts_Ascending(newCommits, d, cfg) ==
  IF d < 1 THEN << >>
  ELSE BlockTexts_Ascending(newCommits, d - 1, cfg)
       \o (IF Grouped(newCommits, d, cfg) = << >> THEN << >>
           ELSE << BlockText(DateKey(d), Grouped(newCommits, d, cfg)) >>)

\* Object.entries(grouped).sort(descending by key).map(...) : the block
\* texts from date d downwards
RECURSIVE BlockTexts(_, _, _)
BlockTexts(newCommits, d, cfg) ==
  IF d < 1 THEN << >>
  ELSE (IF Grouped(newCommits, d, cfg) = << >> THEN << >>
        ELSE << BlockText(DateKey(d), Grouped(newCommits, d, cfg)) >>)
       \o BlockTexts(newCommits, d - 1, cfg)

Blocks(newCommits, cfg) ==
  Join(BlockTexts(newCommits, MaxDate, cfg), << NL, NL >>)

\* l.replace(/^- /, "")
StripDash(l) == IF StartsWith(l, <<"-", SP>>) THEN Drop(l, 3) ELSE l

\* one element of txt.split(/\n\s*\n/) turned into {date, points}
ParseBlock(block) ==
  LET lines == SplitLines(Trim(block))
  IN  [date |-> Trim(lines[1]),
       points |-> [i \in 1..(Len(lines) - 1) |-> Trim(StripDash(lines[i + 1]))]]

\* txt ? txt.split(/\n\s*\n/).map(...) : []
ParseItems(txt) ==
  IF txt = << >> THEN << >>
  ELSE [i \in 1..Len(SplitBlank(txt)) |-> ParseBlock(SplitBlank(txt)[i])]

\* generateTxt(items): every block as its date line and its "- point"
\* lines, the blocks joined by a blank line, and a final newline
generateTxt(items) ==
  Join([b \in 1..Len(items) |->
          Join(<< items[b].date >> \o
                 [k \in 1..Len(items[b].points) |->
                    <<"-", SP>> \o items[b].points[k]],
               << NL >>)],
       << NL, NL >>) \o << NL >>

(* --------------------------- generateUpdates --------------------------- *)
VARIABLES
  history,    \* the commits of the repository, newest first
  now,        \* the wall clock: the time of the latest call
  txtFile,    \* updates.txt
  indexFile,  \* updates.index.json
  jsonFile,   \* updates.json
  rssFile,    \* updates.rss
  calls,      \* how many times generateUpdates was called
  last,       \* the most recent call of generateUpdates: options, log,
              \* time, the files before it, and where it stopped
  fetch,      \* the request of fetchGithubCommits and its promise
  handler,    \* the cache directory of the updates handler and its reply
  hook        \* the hook helper processes and their lock file

vars == << history, now, txtFile, indexFile, jsonFile, rssFile, calls, last,
           fetch, handler, hook >>

\* the state of the endpoints and of the hooks, which generateUpdates
\* does not touch
others == << fetch, handler, hook >>

\* fetchGithubCommits has not been called
NoFetch ==
  [promise |-> "none", wire |-> "closed", events |-> << >>, status |-> 0,
   data |-> << >>, maxCount |-> 0, sentAt |-> 0, count |-> 0]

\* the cache directory is empty and the handler has answered nothing
NoHandler ==
  [cache |-> [f \in {"txt", "json", "rss"} |->
                [exists |-> FALSE, madeAt |-> 0, body |-> << >>]],
   meta |-> [exists |-> FALSE, timestamp |-> 0],
   reply |-> [status |-> 0, format |-> "txt", cached |-> FALSE,
              madeAt |-> 0, at |-> 0, body |-> << >>],
   requests |-> 0]

\* no hook helper runs, and the working directory holds neither the lock
\* file nor the tracking file
NoHook ==
  [pc |-> [p \in { 1, 2 } |-> "idle"],
   head |-> [p \in { 1, 2 } |-> 0],
   lock |-> [exists |-> FALSE, pid |-> 0, timestamp |-> 0],
   tracking |-> [exists |-> FALSE, commit |-> 0, timestamp |-> 0],
   runs |-> 0]

Files == [txt |-> txtFile, index |-> indexFile, json |-> jsonFile,
          rss |-> rssFile]

\* the places of generateUpdates that can throw, in program order, and
\* "none" for a call that returns
FailPoints ==
  << "initTxt", "initIndex", "resetTxt", "resetJson", "resetRss", "fetch",
     "writeTxt", "writeIndex", "writeJson", "writeRss", "none" >>

StepNo(p) == CHOOSE k \in 1..Len(FailPoints) : FailPoints[k] = p

\* options of a call: the defaults, and the defaults with one option set
DefaultMaxCount == 2000
DefaultOptions ==
  [force |-> FALSE, keep |-> << >>, stripBranch |-> FALSE,
   confidential |-> << >>, hide |-> << >>,
   since |-> 0, maxCount |-> DefaultMaxCount]

WithForce(options) == options \cup { [o EXCEPT !.force = TRUE] : o \in options }

PlainOptions == WithForce({ DefaultOptions })

Options ==
  WithForce({ DefaultOptions,
              [DefaultOptions EXCEPT !.keep = <<"c","I">>],
              [DefaultOptions EXCEPT !.hide = <<"a">>],
              [DefaultOptions EXCEPT !.since = MaxDate],
              [DefaultOptions EXCEPT !.maxCount = 1] })

\* the options of the calls of test/test.js
RedactingOptions ==
  { [DefaultOptions EXCEPT !.stripBranch = TRUE],
    [DefaultOptions EXCEPT !.confidential = <<"A">>],
    [DefaultOptions EXCEPT !.hide = <<"a">>],
    [DefaultOptions EXCEPT !.stripBranch = TRUE, !.confidential = <<"A">>,
                           !.hide = <<"b">>] }

\* const seen = new Set(indexData.seen || []) after the guarded JSON.parse
SeenList(index) == IF index.exists /\ index.parses THEN Dedup(index.seen) ELSE << >>
SeenSet(index)  == {SeenList(index)[i] : i \in 1..Len(SeenList(index))}

\* NewCommits without the test of the seen set
NewCommits_IgnoreSeen(log, seen, cfg) ==
  SelectSeq(log, LAMBDA c : keepMsg(cfg.keep, c.message))

\* NewCommits with the default filter in place of keepMsg under force
NewCommits_ForceDefaultKeep(log, seen, cfg) ==
  IF cfg.force
  THEN SelectSeq(log, LAMBDA c : defaultKeep(c.message))
  ELSE SelectSeq(log, LAMBDA c : c.hash \notin seen /\ keepMsg(cfg.keep, c.message))

\* log.all.filter(...) of lines 152-154
NewCommits(log, seen, cfg) ==
  IF cfg.force
  THEN SelectSeq(log, LAMBDA c : keepMsg(cfg.keep, c.message))
  ELSE SelectSeq(log, LAMBDA c : c.hash \notin seen /\ keepMsg(cfg.keep, c.message))

\* txt = force ? "" : fs.readFileSync(TXT, "utf8").trim(), "" when unreadable
ReadTxt(txt, cfg) ==
  IF cfg.force \/ ~txt.exists THEN << >> ELSE Trim(txt.content)

\* Merged with a single newline between the new blocks and the old text
Merged_OneNewline(blocks, txt) ==
  blocks \o (IF txt # << >> THEN << NL >> \o txt ELSE << >>)

\* Merged that leaves the new blocks out
Merged_KeepOld(blocks, txt) == txt

\* txt = blocks + (txt ? "\n\n" + txt : "")
Merged(blocks, txt) ==
  blocks \o (IF txt # << >> THEN << NL, NL >> \o txt ELSE << >>)

Hashes(commits) == [i \in 1..Len(commits) |-> commits[i].hash]

\* if (!fs.existsSync(TXT)) fs.writeFileSync(TXT, "")
InitTxt(txt) == IF ~txt.exists THEN TxtOf(<< >>) ELSE txt

\* InitIndex that writes the empty index only when the file is missing
InitIndex_OnlyMissing(index, cfg) ==
  IF ~index.exists THEN IndexOf(<< >>) ELSE index

\* if (!fs.existsSync(INDEX_FILE) || force) write { seen: [] }
InitIndex(index, cfg) ==
  IF ~index.exists \/ cfg.force THEN IndexOf(<< >>) ELSE index

\* ResetTxt that empties the text without force as well
ResetTxt_Always(txt, cfg) == IF txt.exists THEN TxtOf(<< >>) ELSE txt

\* under force: if (fs.existsSync(TXT)) fs.writeFileSync(TXT, "")
ResetTxt(txt, cfg) == IF cfg.force /\ txt.exists THEN TxtOf(<< >>) ELSE txt

\* under force: an existing updates.json is rewritten with no items
ResetJson(json, cfg, t) ==
  IF cfg.force /\ json.exists THEN JsonOf(t, << >>) ELSE json

\* under force: an existing updates.rss is emptied
ResetRss(rss, cfg) == IF cfg.force /\ rss.exists THEN BlankRss ELSE rss

\* fs.writeFileSync(TXT, txt.trim() + "\n")
WriteTxt(merged) == TxtOf(Trim(merged) \o << NL >>)

\* UpdatedSeen that does not record the new commits
UpdatedSeen_KeepOld(seen, newCommits) == seen

\* UpdatedSeen that forgets the ids seen before
UpdatedSeen_DropOld(seen, newCommits) == Hashes(newCommits)

\* const updatedSeen = [...seen, ...newCommits.map((c) => c.hash)]
UpdatedSeen(seen, newCommits) == seen \o Hashes(newCommits)

\* The files after a call with options cfg that fetched log at time t and
\* threw at the fail point stop ("none": returned).  A step is carried out
\* when it comes before stop and its condition in the source holds.
Generate(f, cfg, log, t, stop) ==
  LET Did(p) == StepNo(p) < StepNo(stop)
      \* lines 52-79
      txt1  == IF Did("initTxt") THEN InitTxt(f.txt) ELSE f.txt
      idx1  == IF Did("initIndex") THEN InitIndex(f.index, cfg) ELSE f.index
      txt2  == IF Did("resetTxt") THEN ResetTxt(txt1, cfg) ELSE txt1
      json1 == IF Did("resetJson") THEN ResetJson(f.json, cfg, t) ELSE f.json
      rss1  == IF Did("resetRss") THEN ResetRss(f.rss, cfg) ELSE f.rss
      \* lines 93-162
      seen == SeenList(idx1)
      newCommits == NewCommits(log, SeenSet(idx1), cfg)
      txt == ReadTxt(txt2, cfg)
      \* lines 164-188
      merged == IF newCommits # << >> THEN Merged(Blocks(newCommits, cfg), txt)
                ELSE txt
      txt3 == IF Did("writeTxt") /\ newCommits # << >>
              THEN WriteTxt(merged) ELSE txt2
      idx2 == IF Did("writeIndex") /\ newCommits # << >>
              THEN IndexOf(UpdatedSeen(seen, newCommits)) ELSE idx1
      \* lines 190-234
      items == ParseItems(merged)
      json2 == IF Did("writeJson") THEN JsonOf(t, items) ELSE json1
      rss2  == IF Did("writeRss") THEN RssOf(t, items) ELSE rss1
  IN  [txt |-> txt3, index |-> idx2, json |-> json2, rss |-> rss2]

\* whether a call reaches the step p and carries it out, so that it can
\* throw there
Executes(f, cfg, log, p) ==
  CASE p = "initTxt"   -> ~f.txt.exists
    [] p = "initIndex" -> ~f.index.exists \/ cfg.force
    [] p = "resetTxt"  -> cfg.force
    [] p = "resetJson" -> cfg.force /\ f.json.exists
    [] p = "resetRss"  -> cfg.force /\ f.rss.exists
    [] p \in {"writeTxt", "writeIndex"} ->
         NewCommits(log, SeenSet(InitIndex(f.index, cfg)), cfg) # << >>
    [] OTHER -> TRUE

NoCall ==
  [ran |-> FALSE, stop |-> "none", again |-> FALSE, cfg |-> DefaultOptions,
   log |-> << >>, at |-> 0,
   pre |-> [txt |-> NoTxt, index |-> NoIndex, json |-> NoJson, rss |-> NoRss]]

Init ==
  /\ history = << >>
  /\ now = 0
  /\ txtFile = NoTxt
  /\ indexFile = NoIndex
  /\ jsonFile = NoJson
  /\ rssFile = NoRss
  /\ calls = 0
  /\ last = NoCall
  /\ fetch = NoFetch
  /\ handler = NoHandler
  /\ hook = NoHook

\* a commit is made: it becomes the head of the history, and it is not
\* dated before the commit it follows
Commit(d, m) ==
  /\ calls < MaxCalls
  /\ Len(history) < MaxCommits
  /\ history # << >> => d >= history[1].date
  /\ history' = << [hash |-> Len(history) + 1, date |-> d, message |-> m] >>
                  \o history
  /\ UNCHANGED << now, txtFile, indexFile, jsonFile, rssFile, calls, last >>
  /\ UNCHANGED others

\* one call of generateUpdates(options), returning or throwing at stop; the
\* clock it reads is later than the clock the call before it read
Run(cfg, stop) ==
  LET log == GitLog(history, cfg.since, cfg.maxCount)
      g   == Generate(Files, cfg, log, now + 1, stop)
  IN  /\ calls < MaxCalls
      /\ Executes(Files, cfg, log, stop)
      /\ now' = now + 1
      /\ txtFile' = g.txt
      /\ indexFile' = g.index
      /\ jsonFile' = g.json
      /\ rssFile' = g.rss
      /\ calls' = calls + 1
      /\ last' = [ran |-> TRUE, stop |-> stop, cfg |-> cfg, log |-> log,
                  at |-> now + 1, pre |-> Files,
                  again |-> /\ last.ran /\ last.stop = "none" /\ stop = "none"
                            /\ last.cfg = cfg /\ last.log = log]
      /\ UNCHANGED history
      /\ UNCHANGED others

\* cleanup() and setup() of test/test.js: the output directory holds a
\* hand-written updates.txt and an empty index, and nothing else
SetupText ==
  << "2", NL, "-", SP, "a", NL, NL,
     "1", NL, "-", SP, "[", "b", "]", ":", SP, "a", NL >>

Setup ==
  /\ calls < MaxCalls
  /\ txtFile' = TxtOf(SetupText)
  /\ indexFile' = IndexOf(<< >>)
  /\ jsonFile' = NoJson
  /\ rssFile' = NoRss
  /\ last' = NoCall
  /\ UNCHANGED << history, now, calls >>
  /\ UNCHANGED others

\* calls that return
Returns == \E cfg \in Options : Run(cfg, "none")

\* calls that return or throw somewhere
ReturnsOrThrows ==
  \E cfg \in PlainOptions, k \in 1..Len(FailPoints) : Run(cfg, FailPoints[k])

\* the calls of test/test.js
ReturnsRedacted == \E cfg \in RedactingOptions : Run(cfg, "none")

\* runs of calls that return, from an empty output directory
Next ==
  \/ \E d \in Dates, m \in Messages : Commit(d, m)
  \/ Returns

Spec == Init /\ [][Next]_vars

\* runs of calls that may throw
NextFail ==
  \/ \E d \in Dates, m \in Messages : Commit(d, m)
  \/ ReturnsOrThrows

SpecFail == Init /\ [][NextFail]_vars

\* runs of the test suite: each call follows a setup of the directory
NextTest ==
  \/ \E d \in Dates, m \in Messages : Commit(d, m)
  \/ Setup
  \/ ReturnsRedacted

SpecTest == Init /\ [][NextTest]_vars

\* commit subjects of a repository whose runs hide the term "a": one that
\* the term empties and one that is a dash
DashMessages == { <<"a">>, <<"-">> }

HidingOptions == WithForce({ [DefaultOptions EXCEPT !.hide = <<"a">>] })

\* calls that hide a term
ReturnsHiding == \E cfg \in HidingOptions : Run(cfg, "none")

\* runs of calls that hide a term
NextHide ==
  \/ \E d \in Dates, m \in DashMessages : Commit(d, m)
  \/ ReturnsHiding

SpecHide == Init /\ [][NextHide]_vars

\* updates.index.json is overwritten from outside with a text that is not
\* JSON: the case the catch around JSON.parse provides for; the files are
\* then no longer as the latest call left them
CorruptIndex == [exists |-> TRUE, parses |-> FALSE, seen |-> << >>]

Corrupt ==
  /\ calls < MaxCalls
  /\ indexFile # CorruptIndex
  /\ indexFile' = CorruptIndex
  /\ last' = NoCall
  /\ UNCHANGED << history, now, txtFile, jsonFile, rssFile, calls >>
  /\ UNCHANGED others

\* calls with the default options, with and without force
ReturnsPlain == \E cfg \in PlainOptions : Run(cfg, "none")

\* runs over a directory whose index may be damaged between calls
NextCorrupt ==
  \/ \E d \in Dates, m \in Messages : Commit(d, m)
  \/ Corrupt
  \/ ReturnsPlain

SpecCorrupt == Init /\ [][NextCorrupt]_vars

\* commit subjects the default filter keeps
KeptMessages == { <<"a">>, <<"b">> }

\* runs with the default options over commits that are all kept
NextKept ==
  \/ \E d \in Dates, m \in KeptMessages : Commit(d, m)
  \/ ReturnsPlain

SpecKept == Init /\ [][NextKept]_vars

\* updates.index.json is deleted from outside while updates.txt stays: the
\* case of a missing index that the initialisation provides for
DeleteIndex ==
  /\ calls < MaxCalls
  /\ indexFile.exists
  /\ indexFile' = NoIndex
  /\ last' = NoCall
  /\ UNCHANGED << history, now, txtFile, jsonFile, rssFile, calls >>
  /\ UNCHANGED others

\* runs without force, over all commits or over those of the latest date,
\* in a directory whose index may be deleted between calls
NextLost ==
  \/ \E d \in Dates, m \in Messages : Commit(d, m)
  \/ DeleteIndex
  \/ \E cfg \in { DefaultOptions, [DefaultOptions EXCEPT !.since = MaxDate] } :
       Run(cfg, "none")

SpecLost == Init /\ [][NextLost]_vars

\* commit subjects in which the deletion of a term brings the text on its
\* two sides together
JoinMessages == { <<"a","a","b","b">>, <<"c","a","b","d">> }

\* the option hide with the term "ab", and with the terms "ab" and "cd" in
\* both orders
JoinOptions ==
  { [DefaultOptions EXCEPT !.hide = <<"a","b">>],
    [DefaultOptions EXCEPT !.hide = <<"a","b",",","c","d">>],
    [DefaultOptions EXCEPT !.hide = <<"c","d",",","a","b">>] }

\* runs that hide these terms
NextJoin ==
  \/ \E d \in Dates, m \in JoinMessages : Commit(d, m)
  \/ \E cfg \in JoinOptions : Run(cfg, "none")

SpecJoin == Init /\ [][NextJoin]_vars

(* ------------------- messages and options of the tests ------------------ *)
\* the messages, options and expected results of the processMessage tests

\* "Simple commit message"
msg1 ==
  <<"S","i","m","p","l","e"," ","c","o","m","m","i","t"," ","m","e","s","s",
  "a","g","e">>

\* "[feature]: Added new functionality"
msg2 ==
  <<"[","f","e","a","t","u","r","e","]",":"," ","A","d","d","e","d"," ","n",
  "e","w"," ","f","u","n","c","t","i","o","n","a","l","i","t","y">>

\* "Added aws credentials"
msg3 ==
  <<"A","d","d","e","d"," ","a","w","s"," ","c","r","e","d","e","n","t","i",
  "a","l","s">>

\* "Added api key for authentication"
msg4 ==
  <<"A","d","d","e","d"," ","a","p","i"," ","k","e","y"," ","f","o","r"," ",
  "a","u","t","h","e","n","t","i","c","a","t","i","o","n">>

\* "Added aws access key and updated S3 bucket"
msg5 ==
  <<"A","d","d","e","d"," ","a","w","s"," ","a","c","c","e","s","s"," ","k",
  "e","y"," ","a","n","d"," ","u","p","d","a","t","e","d"," ","S","3"," ",
  "b","u","c","k","e","t">>

\* "Fixed password issues"
msg6 ==
  <<"F","i","x","e","d"," ","p","a","s","s","w","o","r","d"," ","i","s","s",
  "u","e","s">>

\* "Updated private data in the database"
msg7 ==
  <<"U","p","d","a","t","e","d"," ","p","r","i","v","a","t","e"," ","d","a",
  "t","a"," ","i","n"," ","t","h","e"," ","d","a","t","a","b","a","s","e">>

\* "Fixed password and secret token issues"
msg8 ==
  <<"F","i","x","e","d"," ","p","a","s","s","w","o","r","d"," ","a","n","d",
  " ","s","e","c","r","e","t"," ","t","o","k","e","n"," ","i","s","s","u",
  "e","s">>

\* "[branch]: Added aws keys and private data"
msg9 ==
  <<"[","b","r","a","n","c","h","]",":"," ","A","d","d","e","d"," ","a","w",
  "s"," ","k","e","y","s"," ","a","n","d"," ","p","r","i","v","a","t","e",
  " ","d","a","t","a">>

\* "Updated AWS credentials and Api Key"
msg10 ==
  <<"U","p","d","a","t","e","d"," ","A","W","S"," ","c","r","e","d","e","n",
  "t","i","a","l","s"," ","a","n","d"," ","A","p","i"," ","K","e","y">>

\* "Updated node.js and api-key"
msg11 ==
  <<"U","p","d","a","t","e","d"," ","n","o","d","e",".","j","s"," ","a","n",
  "d"," ","a","p","i","-","k","e","y">>


\* "Simple commit message"
result1 ==
  <<"S","i","m","p","l","e"," ","c","o","m","m","i","t"," ","m","e","s","s",
  "a","g","e">>

\* "Added new functionality"
result2 ==
  <<"A","d","d","e","d"," ","n","e","w"," ","f","u","n","c","t","i","o","n",
  "a","l","i","t","y">>

\* "Added --confidential-- credentials"
result3 ==
  <<"A","d","d","e","d"," ","-","-","c","o","n","f","i","d","e","n","t","i",
  "a","l","-","-"," ","c","r","e","d","e","n","t","i","a","l","s">>

\* "Added --confidential-- for authentication"
result4 ==
  <<"A","d","d","e","d"," ","-","-","c","o","n","f","i","d","e","n","t","i",
  "a","l","-","-"," ","f","o","r"," ","a","u","t","h","e","n","t","i","c",
  "a","t","i","o","n">>

\* "Added --confidential-- access key and updated --confidential-- bucket"
result5 ==
  <<"A","d","d","e","d"," ","-","-","c","o","n","f","i","d","e","n","t","i",
  "a","l","-","-"," ","a","c","c","e","s","s"," ","k","e","y"," ","a","n",
  "d"," ","u","p","d","a","t","e","d"," ","-","-","c","o","n","f","i","d",
  "e","n","t","i","a","l","-","-"," ","b","u","c","k","e","t">>

\* "Fixed  issues"
result6 ==
  <<"F","i","x","e","d"," "," ","i","s","s","u","e","s">>

\* "Updated  in the database"
result7 ==
  <<"U","p","d","a","t","e","d"," "," ","i","n"," ","t","h","e"," ","d","a",
  "t","a","b","a","s","e">>

\* "Fixed  and  issues"
result8 ==
  <<"F","i","x","e","d"," "," ","a","n","d"," "," ","i","s","s","u","e",
  "s">>

\* "Added --confidential-- keys and"
result9 ==
  <<"A","d","d","e","d"," ","-","-","c","o","n","f","i","d","e","n","t","i",
  "a","l","-","-"," ","k","e","y","s"," ","a","n","d">>

\* "Updated --confidential-- credentials and --confidential--"
result10 ==
  <<"U","p","d","a","t","e","d"," ","-","-","c","o","n","f","i","d","e","n",
  "t","i","a","l","-","-"," ","c","r","e","d","e","n","t","i","a","l","s",
  " ","a","n","d"," ","-","-","c","o","n","f","i","d","e","n","t","i","a",
  "l","-","-">>

\* "Updated --confidential-- and --confidential--"
result11 ==
  <<"U","p","d","a","t","e","d"," ","-","-","c","o","n","f","i","d","e","n",
  "t","i","a","l","-","-"," ","a","n","d"," ","-","-","c","o","n","f","i",
  "d","e","n","t","i","a","l","-","-">>


\* option texts

\* "aws"
aws ==
  <<"a","w","s">>

\* "api key"
apiKey ==
  <<"a","p","i"," ","k","e","y">>

\* "aws,S3"
awsS3 ==
  <<"a","w","s",",","S","3">>

\* "aws,api key"
awsApiKey ==
  <<"a","w","s",",","a","p","i"," ","k","e","y">>

\* "node.js,api-key"
nodeJs ==
  <<"n","o","d","e",".","j","s",",","a","p","i","-","k","e","y">>

\* "password"
password ==
  <<"p","a","s","s","w","o","r","d">>

\* "private data"
privateData ==
  <<"p","r","i","v","a","t","e"," ","d","a","t","a">>

\* "password,secret token"
passwordSecret ==
  <<"p","a","s","s","w","o","r","d",",","s","e","c","r","e","t"," ","t","o",
  "k","e","n">>

\* "confidential"
confidentialWord ==
  <<"c","o","n","f","i","d","e","n","t","i","a","l">>

\* "added "
addedWord ==
  <<"a","d","d","e","d"," ">>


\* further subjects: a dot of a term met by another character, a term
\* repeated in several letter cases, bracket groups in other places

\* "Updated nodexjs and api-key"
msgDot ==
  <<"U","p","d","a","t","e","d"," ","n","o","d","e","x","j","s"," ","a","n",
  "d"," ","a","p","i","-","k","e","y">>

\* "aws AWS Aws awsaws"
msgRepeat ==
  <<"a","w","s"," ","A","W","S"," ","A","w","s"," ","a","w","s","a","w",
  "s">>

\* "[feat][ui]: Added X"
msgTwoGroups ==
  <<"[","f","e","a","t","]","[","u","i","]",":"," ","A","d","d","e","d"," ",
  "X">>

\* "Added [beta]: X"
msgInnerGroup ==
  <<"A","d","d","e","d"," ","[","b","e","t","a","]",":"," ","X">>

\* "[feature] Added X"
msgNoColon ==
  <<"[","f","e","a","t","u","r","e","]"," ","A","d","d","e","d"," ","X">>

\* " [feature] : Added X "
msgPadded ==
  <<" ","[","f","e","a","t","u","r","e","]"," ",":"," ","A","d","d","e","d",
  " ","X"," ">>

\* "[feature Added X"
msgUnclosed ==
  <<"[","f","e","a","t","u","r","e"," ","A","d","d","e","d"," ","X">>


\* subjects the commit filter decides on, and keep patterns

\* "Merge branch 'main'"
msgMerge ==
  <<"M","e","r","g","e"," ","b","r","a","n","c","h"," ","'","m","a","i","n",
  "'">>

\* "chore: bump deps"
msgChore ==
  <<"c","h","o","r","e",":"," ","b","u","m","p"," ","d","e","p","s">>

\* "Fix crash on startup"
msgFix ==
  <<"F","i","x"," ","c","r","a","s","h"," ","o","n"," ","s","t","a","r","t",
  "u","p">>

\* "CI: run tests"
msgCi ==
  <<"C","I",":"," ","r","u","n"," ","t","e","s","t","s">>

\* "cinema listing added"
msgCinema ==
  <<"c","i","n","e","m","a"," ","l","i","s","t","i","n","g"," ","a","d","d",
  "e","d">>

\* "build-system update"
msgBuild ==
  <<"b","u","i","l","d","-","s","y","s","t","e","m"," ","u","p","d","a","t",
  "e">>

\* "refactored parser"
msgRefactored ==
  <<"r","e","f","a","c","t","o","r","e","d"," ","p","a","r","s","e","r">>

\* "merge"
patMerge ==
  <<"m","e","r","g","e">>

\* "chore"
patChore ==
  <<"c","h","o","r","e">>

\* "fix"
patFix ==
  <<"f","i","x">>

\* the options of the processMessage tests, test by test
options1  == DefaultOptions
options2  == [DefaultOptions EXCEPT !.stripBranch = TRUE]
options3  == [DefaultOptions EXCEPT !.confidential = aws]
options4  == [DefaultOptions EXCEPT !.confidential = apiKey]
options5  == [DefaultOptions EXCEPT !.confidential = awsS3]
options6  == [DefaultOptions EXCEPT !.hide = password]
options7  == [DefaultOptions EXCEPT !.hide = privateData]
options8  == [DefaultOptions EXCEPT !.hide = passwordSecret]
options9  == [DefaultOptions EXCEPT !.stripBranch = TRUE, !.confidential = aws,
                                    !.hide = privateData]
options10 == [DefaultOptions EXCEPT !.confidential = awsApiKey]
options11 == [DefaultOptions EXCEPT !.confidential = nodeJs]

\* the tests: processMessage(msg, options) is expected to be result
ProcessTests ==
  << [msg |-> msg1,  options |-> options1,  result |-> result1],
     [msg |-> msg2,  options |-> options2,  result |-> result2],
     [msg |-> msg3,  options |-> options3,  result |-> result3],
     [msg |-> msg4,  options |-> options4,  result |-> result4],
     [msg |-> msg5,  options |-> options5,  result |-> result5],
     [msg |-> msg6,  options |-> options6,  result |-> result6],
     [msg |-> msg7,  options |-> options7,  result |-> result7],
     [msg |-> msg8,  options |-> options8,  result |-> result8],
     [msg |-> msg9,  options |-> options9,  result |-> result9],
     [msg |-> msg10, options |-> options10, result |-> result10],
     [msg |-> msg11, options |-> options11, result |-> result11] >>

\* options under which the order of the steps shows: a hide term that
\* occurs in the marker, and a hide term in front of a bracket group
OrderOptions ==
  { [DefaultOptions EXCEPT !.confidential = aws, !.hide = confidentialWord],
    [DefaultOptions EXCEPT !.stripBranch = TRUE, !.hide = addedWord] }

\* options with a keep pattern
KeepOptions ==
  { [DefaultOptions EXCEPT !.keep = patMerge],
    [DefaultOptions EXCEPT !.keep = patChore],
    [DefaultOptions EXCEPT !.keep = patFix] }

ProcessOptions ==
  {ProcessTests[i].options : i \in 1..Len(ProcessTests)}
    \cup OrderOptions \cup KeepOptions

ProcessMessages ==
  {ProcessTests[i].msg : i \in 1..Len(ProcessTests)}
    \cup {msgDot, msgRepeat, msgTwoGroups, msgInnerGroup, msgNoColon,
          msgPadded, msgUnclosed}
    \cup {msgMerge, msgChore, msgFix, msgCi, msgCinema, msgBuild,
          msgRefactored}

\* a repository with one commit, whose subject is one of the messages, and
\* an output directory without files
InitProcess ==
  /\ history \in {<< [hash |-> 1, date |-> 1, message |-> m] >> :
                    m \in ProcessMessages}
  /\ now = 0
  /\ txtFile = NoTxt
  /\ indexFile = NoIndex
  /\ jsonFile = NoJson
  /\ rssFile = NoRss
  /\ calls = 0
  /\ last = NoCall
  /\ fetch = NoFetch
  /\ handler = NoHandler
  /\ hook = NoHook

\* one call over the one commit, as each test makes one call of
\* processMessage
Process == \E cfg \in ProcessOptions : ~last.ran /\ Run(cfg, "none")

\* the filter and the redactor applied to every message under every option
SpecProcess == InitProcess /\ [][Process]_vars

(* --------------------------- fetchGithubCommits ------------------------ *)
\* fetchGithubCommits(token, owner, repo, maxCount) of the endpoints module:
\* one https request whose callbacks settle the promise.  The request is
\* made without a timeout option and without a listener for a timeout.

MaxFetches == 2      \* calls of fetchGithubCommits in one behaviour
MaxChunks  == 3      \* chunks of one response body
MaxClock   == 3      \* readings of the clock

\* the status codes a server answers with
Statuses == { 200, 403 }

\* the pieces a response body is received in: the brackets of a JSON
\* array, one commit object, and a piece of a page that is not JSON
Chunks == { "[", "c", "]", "<" }

\* whether JSON.parse(data) and commits.map(...) go through: data is an
\* array of commit objects
ParsesAsCommits(data) ==
  /\ Len(data) >= 2
  /\ data[1] = "["
  /\ data[Len(data)] = "]"
  /\ \A i \in 2..(Len(data) - 1) : data[i] = "c"

\* time passes
Tick ==
  /\ now < MaxClock
  /\ now' = now + 1
  /\ UNCHANGED << history, txtFile, indexFile, jsonFile, rssFile, calls,
                  last, fetch, handler, hook >>

\* what no step of the fetch changes
FetchFrame ==
  UNCHANGED << history, now, txtFile, indexFile, jsonFile, rssFile, calls,
               last, handler, hook >>

\* new Promise(...): https.request(options, callback), req.on("error"),
\* req.end() ; the caller awaits the promise, so calls follow one another
FetchGithubCommits(maxCount) ==
  /\ fetch.promise # "pending"
  /\ fetch.count < MaxFetches
  /\ fetch' = [promise |-> "pending", wire |-> "open", events |-> << >>,
               status |-> 0, data |-> << >>, maxCount |-> maxCount,
               sentAt |-> now, count |-> fetch.count + 1]
  /\ FetchFrame

\* the server answers with a status line and headers
ServerResponds(status) ==
  /\ fetch.wire = "open"
  /\ fetch' = [fetch EXCEPT !.wire = "answering",
                 !.events = Append(@, [type |-> "response", status |-> status,
                                       chunk |-> ""])]
  /\ FetchFrame

\* the server sends a piece of the body
ServerSends(chunk) ==
  /\ fetch.wire = "answering"
  /\ Len(fetch.data)
       + Len(SelectSeq(fetch.events, LAMBDA e : e.type = "data")) < MaxChunks
  /\ fetch' = [fetch EXCEPT
                 !.events = Append(@, [type |-> "data", status |-> 0,
                                       chunk |-> chunk])]
  /\ FetchFrame

\* the server ends the response
ServerEnds ==
  /\ fetch.wire = "answering"
  /\ fetch' = [fetch EXCEPT !.wire = "closed",
                 !.events = Append(@, [type |-> "end", status |-> 0,
                                       chunk |-> ""])]
  /\ FetchFrame

\* the connection fails before a response arrives
SocketError ==
  /\ fetch.wire = "open"
  /\ fetch' = [fetch EXCEPT !.wire = "closed",
                 !.events = Append(@, [type |-> "error", status |-> 0,
                                       chunk |-> ""])]
  /\ FetchFrame

\* the promise after res.on("end"): resolve on status 200 with a body that
\* parses, reject otherwise
SettledOnEnd(f) ==
  IF f.status = 200 /\ ParsesAsCommits(f.data) THEN "resolved" ELSE "rejected"

\* the event loop runs the callback of the oldest event: the response
\* callback, res.on("data"), res.on("end") or req.on("error")
Dispatch ==
  /\ fetch.events # << >>
  /\ LET e == Head(fetch.events)
         f == [fetch EXCEPT !.events = Tail(@)]
     IN  fetch' =
           CASE e.type = "response" -> [f EXCEPT !.status = e.status]
             [] e.type = "data"     -> [f EXCEPT !.data = Append(@, e.chunk)]
             [] e.type = "end"      -> [f EXCEPT !.promise = SettledOnEnd(f)]
             [] OTHER               -> [f EXCEPT !.promise = "rejected"]
  /\ FetchFrame

\* requests to api.github.com and what the network does with them
NextFetch ==
  \/ \E maxCount \in 1..2 : FetchGithubCommits(maxCount)
  \/ \E status \in Statuses : ServerResponds(status)
  \/ \E chunk \in Chunks : ServerSends(chunk)
  \/ ServerEnds
  \/ SocketError
  \/ Dispatch
  \/ Tick

SpecFetch == Init /\ [][NextFetch]_vars

\* the event loop runs every callback that is due and the clock goes on;
\* nothing obliges the server to answer
FairFetch == SpecFetch /\ WF_vars(Dispatch) /\ WF_vars(Tick)

(* ---------------------------- updates handler -------------------------- *)
\* the handler that createUpdatesHandler returns, over the local
\* repository: it answers from the cache directory or generates the body
\* from the commits.  The clock is read every twelve hours.

MaxRequests == 4     \* requests to the handler in one behaviour

\* const CACHE_EXPIRATION = 24 * 60 * 60 * 1000
CacheExpiration == 86400000

\* Date.now() in milliseconds at the clock reading t
HandlerTime(t) == t * 43200000

\* the items of the dates from d downwards: the messages of the kept
\* commits of each date, stripped of the branch prefix when the option
\* asks for it, trimmed, and without repeats
RECURSIVE ItemsFrom(_, _, _)
ItemsFrom(commits, d, options) ==
  IF d < 1 THEN << >>
  ELSE LET ofDate == SelectSeq(commits, LAMBDA c : c.date = d)
           msgs == [i \in 1..Len(ofDate) |->
                      Trim(IF options.stripBranch
                           THEN StripBranchPrefix(Trim(ofDate[i].message))
                           ELSE Trim(ofDate[i].message))]
       IN  (IF ofDate = << >> THEN << >>
            ELSE << [date |-> DateKey(d), points |-> Dedup(msgs)] >>)
           \o ItemsFrom(commits, d - 1, options)

\* processCommits(commits, options)
processCommits(commits, options) ==
  ItemsFrom(SelectSeq(commits, LAMBDA c : keepMsg(options.keep, c.message)),
            MaxDate, options)

\* generateJSON, generateRSS or generateTxt, by the format asked for
Content(format, items, t) ==
  CASE format = "json" -> JsonOf(t, items)
    [] format = "rss"  -> RssOf(t, items)
    [] OTHER           -> generateTxt(items)

\* one request to the handler with req.format and req.forceRefresh, in a
\* directory that is a git repository or is none
Request(format, forceRefresh, isRepo) ==
  LET t == HandlerTime(now)
      answer(status, cached, madeAt, body) ==
        [status |-> status, format |-> format, cached |-> cached,
         madeAt |-> madeAt, at |-> now, body |-> body]
      items == processCommits(GitLog(history, 0, DefaultMaxCount),
                              DefaultOptions)
      body == Content(format, items, t)
  IN  /\ handler.requests < MaxRequests
      /\ handler' =
           [ IF format \notin {"txt", "json", "rss"}
             THEN [handler EXCEPT !.reply = answer(400, FALSE, now, << >>)]
             ELSE IF /\ ~forceRefresh
                     /\ handler.cache[format].exists
                     /\ handler.meta.exists
                     /\ t - handler.meta.timestamp < CacheExpiration
             THEN [handler EXCEPT !.reply =
                     answer(200, TRUE, handler.cache[format].madeAt,
                            handler.cache[format].body)]
             ELSE IF ~isRepo
             THEN [handler EXCEPT !.reply = answer(404, FALSE, now, << >>)]
             ELSE [handler EXCEPT
                     !.cache[format] = [exists |-> TRUE, madeAt |-> now,
                                        body |-> body],
                     !.meta = [exists |-> TRUE, timestamp |-> t],
                     !.reply = answer(200, FALSE, now, body)]
           EXCEPT !.requests = handler.requests + 1 ]
      /\ UNCHANGED << history, now, txtFile, indexFile, jsonFile, rssFile,
                      calls, last, fetch, hook >>

\* requests to the handler while commits are made and time passes
NextHandler ==
  \/ \E d \in Dates, m \in Messages : Commit(d, m)
  \/ \E format \in {"txt", "json", "rss", "xml"}, forceRefresh \in BOOLEAN,
        isRepo \in BOOLEAN : Request(format, forceRefresh, isRepo)
  \/ Tick

SpecHandler == Init /\ [][NextHandler]_vars

(* ------------------------------ hook helper ---------------------------- *)
\* the helper script that install-hooks.js writes for the git hooks: each
\* hook starts one process of it in the working directory.  Every call of
\* fs is one step of the process; the clock is read every ten seconds.

MaxHookRuns == 3     \* helper processes started in one behaviour

Procs == { 1, 2 }

\* Date.now() in milliseconds at the clock reading t
HookTime(t) == t * 10000

\* (now - lockData.timestamp) < 30000
LockMaxAge == 30000

\* (now - lastTimestamp) < 60000
TrackMaxAge == 60000

\* the process p goes to the step pc
Goto(p, pc) == [hook EXCEPT !.pc[p] = pc]

\* what no step of a helper changes
HookFrame ==
  UNCHANGED << history, now, txtFile, indexFile, jsonFile, rssFile, calls,
               last, fetch, handler >>

\* a hook starts the helper, which reads the id of HEAD
HookStart(p, c) ==
  /\ hook.pc[p] = "idle"
  /\ hook.runs < MaxHookRuns
  /\ hook' = [hook EXCEPT !.pc[p] = "trackCheck", !.head[p] = c,
                          !.runs = @ + 1]
  /\ HookFrame

\* the tracking file is read: the helper exits when it names the same
\* commit and is younger than a minute
TrackCheck(p) ==
  /\ hook.pc[p] = "trackCheck"
  /\ hook' = IF /\ hook.tracking.exists
                /\ hook.tracking.commit = hook.head[p]
                /\ HookTime(now) - hook.tracking.timestamp < TrackMaxAge
             THEN Goto(p, "idle")
             ELSE Goto(p, "trackWrite")
  /\ HookFrame

\* fs.writeFileSync(commitTrackingFile, commitId + ":" + Date.now())
TrackWrite(p) ==
  /\ hook.pc[p] = "trackWrite"
  /\ hook' = [hook EXCEPT !.pc[p] = "lockCheck",
                          !.tracking = [exists |-> TRUE, commit |-> hook.head[p],
                                        timestamp |-> HookTime(now)]]
  /\ HookFrame

\* if (fs.existsSync(lockFile))
LockCheck(p) ==
  /\ hook.pc[p] = "lockCheck"
  /\ hook' = IF hook.lock.exists THEN Goto(p, "lockRead")
             ELSE Goto(p, "lockCreate")
  /\ HookFrame

\* the lock file is read: a read that fails is caught, a lock younger than
\* thirty seconds ends the helper, an older one is to be removed
LockRead(p) ==
  /\ hook.pc[p] = "lockRead"
  /\ hook' = IF ~hook.lock.exists THEN Goto(p, "lockCreate")
             ELSE IF HookTime(now) - hook.lock.timestamp < LockMaxAge
                  THEN Goto(p, "idle")
                  ELSE Goto(p, "lockUnlink")
  /\ HookFrame

\* fs.unlinkSync(lockFile), its failure caught
LockUnlink(p) ==
  /\ hook.pc[p] = "lockUnlink"
  /\ hook' = [hook EXCEPT !.pc[p] = "lockCreate",
                          !.lock = [exists |-> FALSE, pid |-> 0, timestamp |-> 0]]
  /\ HookFrame

\* fs.writeFileSync(lockFile, JSON.stringify({pid, timestamp, ...}))
LockCreate(p) ==
  /\ hook.pc[p] = "lockCreate"
  /\ hook' = [hook EXCEPT !.pc[p] = "exec",
                          !.lock = [exists |-> TRUE, pid |-> p,
                                    timestamp |-> HookTime(now)]]
  /\ HookFrame

\* execSync(command) returns or throws
ExecReturns(p) ==
  /\ hook.pc[p] = "exec"
  /\ hook' = Goto(p, "unlock")
  /\ HookFrame

\* finally: if (fs.existsSync(lockFile)) fs.unlinkSync(lockFile), and the
\* process exits
Unlock(p) ==
  /\ hook.pc[p] = "unlock"
  /\ hook' = [hook EXCEPT !.pc[p] = "idle",
                          !.lock = [exists |-> FALSE, pid |-> 0, timestamp |-> 0]]
  /\ HookFrame

\* helper processes of two hooks in one working directory
NextHook ==
  \/ \E p \in Procs, c \in 1..2 : HookStart(p, c)
  \/ \E p \in Procs : TrackCheck(p)
  \/ \E p \in Procs : TrackWrite(p)
  \/ \E p \in Procs : LockCheck(p)
  \/ \E p \in Procs : LockRead(p)
  \/ \E p \in Procs : LockUnlink(p)
  \/ \E p \in Procs : LockCreate(p)
  \/ \E p \in Procs : ExecReturns(p)
  \/ \E p \in Procs : Unlock(p)
  \/ Tick

SpecHook == Init /\ [][NextHook]_vars

(* ============================== claims ================================= *)
\* the call that was made last returned
Returned == last.ran /\ last.stop = "none"

\* the ids the index held when the last call started
PreSeen == SeenSet(last.pre.index)

\* the fetched commits of the last call that pass its filter
Kept == SelectSeq(last.log, LAMBDA c : keepMsg(last.cfg.keep, c.message))

\* the fetched commits of the last call whose id the index did not hold
Unseen == SelectSeq(last.log, LAMBDA c : c.hash \notin PreSeen)

\* the number of lines of a text that are points ("-" first)
PointLineCount(content) ==
  Cardinality({i \in 1..Len(SplitLines(content)) :
                 StartsWith(SplitLines(content)[i], <<"-">>)})

\* C1: in a call without force, the commits whose id the index held at the
\* start add no line to updates.txt: the text gains at most one point line
\* for each fetched commit that was not in the index, and when every fetched
\* commit was in the index the text is what it was.
C1_SeenAddNoLine ==
  (last.ran /\ ~last.cfg.force) =>
    /\ PointLineCount(txtFile.content)
         <= PointLineCount(last.pre.txt.content) + Len(Unseen)
    /\ Unseen = << >> => txtFile.content = last.pre.txt.content

\* C1 witness: a call without force returned after fetching a commit that
\* passes the filter and whose id was in the index, next to one that was not
\* and that added its line.
C1_Witness ==
  /\ Returned /\ ~last.cfg.force
  /\ \E i \in 1..Len(Kept) : Kept[i].hash \in PreSeen
  /\ \E i \in 1..Len(Kept) : Kept[i].hash \notin PreSeen
  /\ PointLineCount(txtFile.content) = PointLineCount(last.pre.txt.content) + 1

\* C2 as stated: a second call in a row without force, with the same
\* options and the same fetched commits, leaves all four files as the first
\* call left them.
C2_Original ==
  (last.again /\ ~last.cfg.force) =>
    /\ txtFile = last.pre.txt
    /\ indexFile = last.pre.index
    /\ jsonFile = last.pre.json
    /\ rssFile = last.pre.rss

\* C2 amended: such a second call leaves updates.txt and updates.index.json
\* as they were, and updates.json and updates.rss with the same items; only
\* the time stamps updated_at and lastBuildDate are those of the second call.
C2_IdempotentUpToTimestamps ==
  (last.again /\ ~last.cfg.force) =>
    /\ txtFile = last.pre.txt
    /\ indexFile = last.pre.index
    /\ jsonFile = [last.pre.json EXCEPT !.updated_at = last.at]
    /\ rssFile = [last.pre.rss EXCEPT !.updated = last.at]

\* C2 witness: the second of two such calls returned, and the first had
\* written blocks.
C2_Witness ==
  /\ last.again /\ ~last.cfg.force
  /\ Kept # << >>
  /\ Len(jsonFile.items) > 0
  /\ last.pre.json.updated_at < last.at

\* the items of updates.json hold, for the date of commit c, one block with
\* as many points as the kept commits of that date have distinct redacted
\* texts, the redacted text of c among them when it is not empty
HasLineFor(c, items) ==
  \E i \in 1..Len(items) :
    /\ items[i].date = DateKey(c.date)
    /\ Len(items[i].points) =
         Cardinality({processMessage(Trim(Kept[k].message), last.cfg) :
                        k \in {k \in 1..Len(Kept) : Kept[k].date = c.date}})
    /\ processMessage(Trim(c.message), last.cfg) # << >> =>
         \E k \in 1..Len(items[i].points) :
           items[i].points[k] = processMessage(Trim(c.message), last.cfg)

\* C3: after a call with force that started with an index holding the id of
\* every fetched commit, updates.txt and the items of updates.json hold a
\* line for every fetched commit whose message passes the filter.
C3_ForceRendersEveryKept ==
  (Returned /\ last.cfg.force
     /\ \A i \in 1..Len(last.log) : last.log[i].hash \in PreSeen) =>
    \A i \in 1..Len(Kept) :
      /\ HasLineFor(Kept[i], jsonFile.items)
      /\ HasLineFor(Kept[i], ParseItems(Trim(txtFile.content)))

\* C3 witness: such a call returned, and it fetched commits that pass the
\* filter, all of them already in the index.
C3_Witness ==
  /\ Returned /\ last.cfg.force
  /\ Len(Kept) = 2
  /\ \A i \in 1..Len(last.log) : last.log[i].hash \in PreSeen
  /\ txtFile.content # << >>

\* C4: after a call with force, updates.txt is the serialized blocks of the
\* commits of this call that pass the filter and nothing else (empty when
\* none passes), and the index holds no id that was not fetched in this call.
C4_ForceKeepsNothing ==
  (Returned /\ last.cfg.force) =>
    /\ txtFile.content =
         IF Kept = << >> THEN << >>
         ELSE Trim(Blocks(Kept, last.cfg)) \o << NL >>
    /\ SeenSet(indexFile) \subseteq {last.log[i].hash : i \in 1..Len(last.log)}
    /\ Len(indexFile.seen) = Cardinality(SeenSet(indexFile))

\* C4 witness: a call with force returned that started from a text with
\* content and an index holding an id this call did not fetch.
C4_Witness ==
  /\ Returned /\ last.cfg.force
  /\ Trim(last.pre.txt.content) # << >>
  /\ \E h \in PreSeen : \A i \in 1..Len(last.log) : last.log[i].hash # h

\* C4 witness, second case: the same when no fetched commit passes the filter.
C4_WitnessNoneKept ==
  /\ C4_Witness
  /\ Kept = << >>

\* C5 as stated: after a call that returned, the index holds the ids it held
\* at the start and the ids of all fetched commits that were not yet seen,
\* those the filter rejected included.
C5_Original ==
  Returned =>
    SeenSet(indexFile) = PreSeen \cup {Unseen[i].hash : i \in 1..Len(Unseen)}

\* C5 amended: after a call that returned, the index holds the ids it held
\* at the start (none under force) and the ids of the fetched commits that
\* were not yet seen and pass the filter; a commit the filter rejected is
\* not recorded.
C5_IndexGainsKeptUnseen ==
  Returned =>
    SeenSet(indexFile) =
      (IF last.cfg.force THEN {} ELSE PreSeen)
        \cup {Kept[i].hash : i \in {i \in 1..Len(Kept) :
                                     last.cfg.force \/ Kept[i].hash \notin PreSeen}}

\* C5 witness: a call without force returned that fetched an unseen commit
\* that passes the filter and an unseen one that the filter rejects.
C5_Witness ==
  /\ Returned /\ ~last.cfg.force
  /\ \E i \in 1..Len(Kept) : Kept[i].hash \notin PreSeen
  /\ \E i \in 1..Len(Unseen) : ~keepMsg(last.cfg.keep, Unseen[i].message)

\* C6 as stated: when the fetch throws, the four files are as they were
\* before the call, in existence and in content.
C6_FetchFailureLeavesFiles ==
  (last.ran /\ last.stop = "fetch") => Files = last.pre

\* the four files as a call that returns would have left them
AllWritten == Generate(last.pre, last.cfg, last.log, last.at, "none")

\* C7 as stated: wherever a call throws, either none of the four files has
\* changed or all four have been written.
C7_AllOrNothing ==
  (last.ran /\ last.stop # "none") => (Files = last.pre \/ Files = AllWritten)

\* the new commits of the last call, for a call without force
NewOnes == SelectSeq(Kept, LAMBDA c : c.hash \notin PreSeen)

\* C8 as stated: after a call without force that found a new commit,
\* updates.txt is the serialized new blocks, a blank line, the previous
\* content trimmed, and a final newline.
C8_Original ==
  (Returned /\ ~last.cfg.force /\ NewOnes # << >>) =>
    txtFile.content =
      Blocks(NewOnes, last.cfg) \o << NL, NL >>
        \o Trim(last.pre.txt.content) \o << NL >>

\* C8 amended: so it is when the previous content, trimmed, is not empty;
\* when it is empty, updates.txt is the serialized new blocks, trimmed, and
\* a final newline, with no blank line.
C8_PrependsVerbatim ==
  (Returned /\ ~last.cfg.force /\ NewOnes # << >>) =>
    txtFile.content =
      IF Trim(last.pre.txt.content) # << >>
      THEN Blocks(NewOnes, last.cfg) \o << NL, NL >>
             \o Trim(last.pre.txt.content) \o << NL >>
      ELSE Trim(Blocks(NewOnes, last.cfg)) \o << NL >>

\* C8 witness: a call without force returned that found a new commit and
\* put its block before a previous text that held a block already.
C8_Witness ==
  /\ Returned /\ ~last.cfg.force /\ NewOnes # << >>
  /\ Len(ParseItems(Trim(last.pre.txt.content))) >= 1
  /\ Len(ParseItems(Trim(txtFile.content))) >= 2

\* the redacted form of the points of a text, block by block
RedactedItems(content, cfg) ==
  [i \in 1..Len(ParseItems(Trim(content))) |->
     [date |-> ParseItems(Trim(content))[i].date,
      points |-> [k \in 1..Len(ParseItems(Trim(content))[i].points) |->
                    processMessage(ParseItems(Trim(content))[i].points[k], cfg)]]]

\* C9 as the tests state it: a call with confidential, hide or stripBranch
\* over the directory of setup() leaves the lines of the hand-written
\* updates.txt in redacted form.
C9_ExistingLinesRedacted ==
  (Returned /\ last.pre.txt = TxtOf(SetupText) /\ last.pre.index = IndexOf(<< >>)) =>
    \A i \in 1..Len(RedactedItems(SetupText, last.cfg)) :
      \E j \in 1..Len(ParseItems(Trim(txtFile.content))) :
        ParseItems(Trim(txtFile.content))[j] = RedactedItems(SetupText, last.cfg)[i]

\* the date a date key stands for
DateOf(key) ==
  IF \E d \in Dates : DateKey(d) = key
  THEN CHOOSE d \in Dates : DateKey(d) = key ELSE 0

\* C10 as stated: in the items of updates.json a block with a greater date
\* comes before a block with a smaller date.
C10_ItemsDescending ==
  \A i, j \in 1..Len(jsonFile.items) :
    DateOf(jsonFile.items[i].date) > DateOf(jsonFile.items[j].date) => i < j

\* the points of one block are pairwise different
DistinctPoints(item) ==
  \A i, j \in 1..Len(item.points) :
    i # j => item.points[i] # item.points[j]

\* C11 as stated: in every block of the items of updates.json no two
\* points have the same text.
C11_PointsDistinct ==
  \A b \in 1..Len(jsonFile.items) : DistinctPoints(jsonFile.items[b])

\* two texts are the same up to one trailing newline
SameUpToNewline(s, t) == s = t \/ s \o << NL >> = t \/ s = t \o << NL >>

\* C12 as stated: the text of updates.txt after a call that returned, parsed
\* into blocks and serialized again, is the text itself up to the trailing
\* newline, blocks with a point that redaction emptied included.
C12_RoundTrip ==
  Returned =>
    SameUpToNewline(generateTxt(ParseItems(Trim(txtFile.content))),
                    txtFile.content)

\* the last call started with an index file that exists and does not parse
CorruptAtStart == last.pre.index.exists /\ ~last.pre.index.parses

\* updates.txt when every commit of Kept is rendered as new before the text
\* the call started with (before nothing under force)
KeptPrepended ==
  LET old == IF last.cfg.force THEN << >> ELSE Trim(last.pre.txt.content)
  IN  IF old # << >>
      THEN Blocks(Kept, last.cfg) \o << NL, NL >> \o old \o << NL >>
      ELSE Trim(Blocks(Kept, last.cfg)) \o << NL >>

\* the files as a call made next, with the same options and the same
\* fetched commits, would leave them
FollowingRun == Generate(Files, last.cfg, last.log, last.at + 1, "none")

\* C13 as stated: a call that starts with an index that does not parse
\* returns, leaves an index that parses and holds the id of every fetched
\* commit that passes the filter, has rendered each of them as new, and a
\* call made next over the same commits leaves updates.txt as it is.
C13_Original ==
  (Returned /\ CorruptAtStart) =>
    /\ indexFile.exists /\ indexFile.parses
    /\ SeenList(indexFile) = Hashes(Kept)
    /\ Kept # << >> => txtFile.content = KeptPrepended
    /\ FollowingRun.txt = txtFile

\* C13 amended: so it is when a fetched commit passes the filter or the
\* call is made with force; when none passes and force is not set the call
\* returns too, but it writes no index: the file is left as it was, still
\* not parsing, and updates.txt keeps its content; in both cases a call
\* made next over the same commits leaves updates.txt as it is.
C13_RecoversFromCorruptIndex ==
  (Returned /\ CorruptAtStart) =>
    /\ IF Kept # << >> \/ last.cfg.force
       THEN /\ indexFile.exists /\ indexFile.parses
            /\ SeenList(indexFile) = Hashes(Kept)
            /\ Kept # << >> => txtFile.content = KeptPrepended
       ELSE /\ indexFile = last.pre.index
            /\ txtFile.content = last.pre.txt.content
    /\ FollowingRun.txt = txtFile

\* C13 witness: a call without force returned that started with an index
\* that does not parse and with a text holding the line of a fetched commit
\* already; it rendered that commit once more and wrote an index that parses.
C13_Witness ==
  /\ Returned /\ CorruptAtStart /\ ~last.cfg.force
  /\ Kept # << >>
  /\ PointLineCount(last.pre.txt.content) >= 1
  /\ PointLineCount(txtFile.content) > PointLineCount(last.pre.txt.content)
  /\ indexFile.parses

\* C13 witness, second case: such a call returned when no fetched commit
\* passes the filter, and the index still does not parse.
C13_WitnessNoneKept ==
  /\ Returned /\ CorruptAtStart /\ ~last.cfg.force
  /\ last.log # << >> /\ Kept = << >>
  /\ ~indexFile.parses

\* the last call was made over one commit in a directory without files, and
\* the subject of the commit passed the filter
Rendering ==
  /\ Returned /\ ~last.pre.txt.exists
  /\ Len(last.log) = 1 /\ Kept # << >>

\* the subject of that commit
Subject == last.log[1].message

\* the text of the one point updates.txt then holds, after "- "
RenderedPoint ==
  IF Len(txtFile.content) <= 4 THEN << >>
  ELSE SubSeq(txtFile.content, 5, Len(txtFile.content) - 1)

\* the test whose message and options are those of the last call, if any
TestsOfCall ==
  {i \in 1..Len(ProcessTests) :
     ProcessTests[i].msg = Subject /\ ProcessTests[i].options = last.cfg}

\* C14: the point a call renders for a commit is the subject, trimmed, from
\* which first the branch prefix is stripped (when stripBranch is set), in
\* which then the confidential terms are replaced, from which then the hide
\* terms are deleted, and which is trimmed at the end: it starts and ends
\* with no whitespace, and for "[branch]: Added aws keys and private data"
\* with stripBranch, confidential "aws" and hide "private data" it is
\* "Added --confidential-- keys and".
C14_RedactionOrder ==
  Rendering =>
    /\ RenderedPoint =
         Trim(ReplaceTerms(
                ReplaceTerms(IF last.cfg.stripBranch
                             THEN StripBranchPrefix(Trim(Subject))
                             ELSE Trim(Subject),
                             TermItems(last.cfg.confidential),
                             ConfidentialMarker),
                TermItems(last.cfg.hide), << >>))
    /\ RenderedPoint # << >> =>
         /\ ~IsWs(RenderedPoint[1])
         /\ ~IsWs(RenderedPoint[Len(RenderedPoint)])
    /\ (Subject = msg9 /\ last.cfg = options9) => RenderedPoint = result9

\* C14 witness: the call of test 9 rendered its expected result, for which
\* all three steps and the final trim were needed.
C14_Witness ==
  /\ Rendering /\ Subject = msg9 /\ last.cfg = options9
  /\ RenderedPoint = result9
  /\ jsonFile.items[1].points = << result9 >>

\* C14 witness, second case: a call rendered a point in which the hide term
\* was deleted from the marker that the confidential term had put there.
C14_WitnessOrder ==
  /\ Rendering /\ Subject = msg3
  /\ last.cfg.confidential = aws /\ last.cfg.hide = confidentialWord
  /\ RenderedPoint =
       <<"A","d","d","e","d"," ","-","-","-","-"," ",
         "c","r","e","d","e","n","t","i","a","l","s">>

\* the positions of s at which the term occurs, letter case ignored and
\* every character of the term standing for itself
Occurrences(s, term) ==
  {i \in 1..(Len(s) - Len(term) + 1) :
     ToLowerCase(SubSeq(s, i, i + Len(term) - 1)) = ToLowerCase(term)}

\* the occurrences a scan from the left meets: they do not overlap, and an
\* occurrence that is left out overlaps one that starts before it
ScannedOccurrences(s, term) ==
  CHOOSE S \in SUBSET Occurrences(s, term) :
    /\ \A i, j \in S : i < j => i + Len(term) <= j
    /\ \A i \in Occurrences(s, term) \ S :
         \E j \in S : j < i /\ i < j + Len(term)

\* s with each of these occurrences of the term replaced by repl: a
\* character outside the occurrences, and the replacement of an occurrence,
\* move by the difference in length for every occurrence before them
WithTermReplaced(s, term, repl) ==
  LET S == ScannedOccurrences(s, term)
      Shift(i) == (Len(repl) - Len(term)) * Cardinality({j \in S : j < i})
      Outside == {i \in 1..Len(s) :
                    \A j \in S : i < j \/ j + Len(term) <= i}
  IN  [k \in 1..(Len(s) + (Len(repl) - Len(term)) * Cardinality(S)) |->
         IF \E i \in Outside : i + Shift(i) = k
         THEN s[CHOOSE i \in Outside : i + Shift(i) = k]
         ELSE LET j == CHOOSE j \in S :
                         j + Shift(j) <= k /\ k < j + Shift(j) + Len(repl)
              IN  repl[k - (j + Shift(j)) + 1]]

\* the same for the terms of a list, one after the other
RECURSIVE WithTermsReplaced(_, _, _)
WithTermsReplaced(s, terms, repl) ==
  IF terms = << >> THEN s
  ELSE WithTermsReplaced(WithTermReplaced(s, terms[1], repl), Tail(terms), repl)

\* "Updated nodexjs and --confidential--"
resultDot ==
  <<"U","p","d","a","t","e","d"," ","n","o","d","e","x","j","s"," ","a","n",
    "d"," ">> \o ConfidentialMarker

\* C15: when only confidential terms are configured, the point a call
\* renders is the subject in which, term after term in the order of the
\* list, every occurrence of the term is replaced by --confidential--,
\* whatever the letter case of the occurrence; a term with a space is one
\* term, and a dot of a term matches a dot only ("node.js" leaves "nodexjs"
\* as it is).  The results the tests expect are rendered.
C15_ConfidentialReplaced ==
  (Rendering /\ last.cfg.confidential # << >> /\ last.cfg.hide = << >>
     /\ ~last.cfg.stripBranch) =>
    /\ RenderedPoint =
         Trim(WithTermsReplaced(Trim(Subject),
                                TermItems(last.cfg.confidential),
                                ConfidentialMarker))
    /\ \A i \in TestsOfCall : RenderedPoint = ProcessTests[i].result
    /\ (Subject = msgDot /\ last.cfg = options11) => RenderedPoint = resultDot

\* C15 witness: the call of test 10 replaced "AWS" and "Api Key", written
\* in other letter cases than the terms "aws" and "api key".
C15_Witness ==
  /\ Rendering /\ Subject = msg10 /\ last.cfg = options10
  /\ RenderedPoint = result10

\* C15 witness, second case: with the terms "node.js" and "api-key" a
\* call left "nodexjs" as it was and replaced "api-key".
C15_WitnessDot ==
  /\ Rendering /\ Subject = msgDot /\ last.cfg = options11
  /\ RenderedPoint = resultDot

\* C15 witness, third case: a call replaced five occurrences of one term,
\* two of them adjacent.
C15_WitnessRepeated ==
  /\ Rendering /\ Subject = msgRepeat /\ last.cfg = options3
  /\ Cardinality(ScannedOccurrences(Subject, aws)) = 5
  /\ Len(RenderedPoint) = 5 * Len(ConfidentialMarker) + 3

\* C16: when only hide terms are configured, the point a call renders is
\* the subject from which, term after term in the order of the list, every
\* occurrence of the term is deleted, whatever its letter case, and nothing
\* else: the whitespace on both sides of an occurrence stays, so that
\* "Fixed password issues" with hide "password" is rendered "Fixed  issues"
\* with two spaces.  The results the tests expect are rendered.
C16_HiddenDeleted ==
  (Rendering /\ last.cfg.hide # << >> /\ last.cfg.confidential = << >>
     /\ ~last.cfg.stripBranch) =>
    /\ RenderedPoint =
         Trim(WithTermsReplaced(Trim(Subject), TermItems(last.cfg.hide), << >>))
    /\ \A i \in TestsOfCall : RenderedPoint = ProcessTests[i].result
    /\ (Subject = msg6 /\ last.cfg = options6) =>
         RenderedPoint = <<"F","i","x","e","d"," "," ","i","s","s","u","e","s">>

\* C16 witness: the call of test 6 rendered "Fixed  issues".
C16_Witness ==
  /\ Rendering /\ Subject = msg6 /\ last.cfg = options6
  /\ RenderedPoint = result6
  /\ RenderedPoint[6] = SP /\ RenderedPoint[7] = SP

\* C16 witness, second case: the call of test 8 deleted the two terms of
\* its list, one of them with a space, and left two double spaces.
C16_WitnessTwoTerms ==
  /\ Rendering /\ Subject = msg8 /\ last.cfg = options8
  /\ RenderedPoint = result8
  /\ Len(Subject) - Len(RenderedPoint) = Len(passwordSecret) - 1

\* "[ui]: Added X"
resultTwoGroups == <<"[","u","i","]",":"," ","A","d","d","e","d"," ","X">>

\* "Added X"
resultAddedX == <<"A","d","d","e","d"," ","X">>

\* p is one bracket group "[...]" without "]" inside, followed by
\* whitespace and at most one colon
IsBranchPrefix(p) ==
  /\ Len(p) >= 2 /\ p[1] = "["
  /\ \E j \in 2..Len(p) :
       /\ p[j] = "]"
       /\ \A k \in 2..(j - 1) : p[k] # "]"
       /\ \A k \in (j + 1)..Len(p) : IsWs(p[k]) \/ p[k] = ":"
       /\ Cardinality({k \in (j + 1)..Len(p) : p[k] = ":"}) <= 1

C17_WitnessTwoGroups ==
  /\ Rendering /\ Subject = msgTwoGroups /\ last.cfg = options2
  /\ RenderedPoint = resultTwoGroups

\* C17 witness, third case: a call with stripBranch kept a bracket group
\* that is not at the start, and a call without stripBranch kept a leading
\* one.
C17_WitnessKept ==
  /\ Rendering
  /\ \/ Subject = msgInnerGroup /\ last.cfg = options2
     \/ Subject = msg2 /\ last.cfg = options1
  /\ RenderedPoint = Subject

\* the last call was made over one commit in a directory without files
FreshCall == Returned /\ ~last.pre.txt.exists /\ Len(last.log) = 1

\* that call kept the commit: it rendered a point and recorded the id
KeptIt == txtFile.content # << >> /\ indexFile.seen = << 1 >>

\* that call rejected the commit: no point, no id
RejectedIt == txtFile.content = << >> /\ indexFile.seen = << >>

\* text p occurs in text m, the letter case ignored
OccursIn(p, m) ==
  \E i \in 1..(Len(m) - Len(p) + 1) :
    ToLowerCase(SubSeq(m, i, i + Len(p) - 1)) = ToLowerCase(p)

\* word w is at the start of text m, the letter case ignored, and a word
\* boundary follows it
StartsWithWord(m, w) ==
  /\ Len(m) >= Len(w)
  /\ ToLowerCase(SubSeq(m, 1, Len(w))) = w
  /\ Len(m) > Len(w) => m[Len(w) + 1] \notin WordChars

\* C18: a call keeps or rejects a commit, and never both.  With a keep
\* pattern it keeps the commit exactly when the pattern occurs in the
\* subject, the letter case ignored, whatever the default filter says (the
\* pattern "merge" keeps "Merge branch 'main'").  Without one it rejects the
\* commit exactly when the subject, in lower case, starts with "merge" or
\* starts with one of the words chore, ci, build, refactor followed by a
\* word boundary: "Merge branch 'main'" and "chore: bump deps" are rejected,
\* "Fix crash on startup" is kept.
C18_KeepDecision ==
  FreshCall =>
    /\ KeptIt \/ RejectedIt
    /\ last.cfg.keep # << >> => (KeptIt <=> OccursIn(last.cfg.keep, Subject))
    /\ last.cfg.keep = << >> =>
         (RejectedIt <=>
            \/ OccursIn(patMerge, SubSeq(Subject, 1, Len(patMerge)))
            \/ \E w \in {patChore, <<"c","i">>, <<"b","u","i","l","d">>,
                          <<"r","e","f","a","c","t","o","r">>} :
                 StartsWithWord(Subject, w))
    /\ (last.cfg.keep = << >> /\ Subject \in {msgMerge, msgChore, msgCi, msgBuild})
         => RejectedIt
    /\ (last.cfg.keep = << >> /\ Subject \in {msgFix, msgCinema, msgRefactored})
         => KeptIt
    /\ (last.cfg.keep = patMerge /\ Subject = msgMerge) => KeptIt
    /\ (last.cfg.keep = patChore /\ Subject = msgChore) => KeptIt
    /\ (last.cfg.keep = patMerge /\ Subject = msgFix) => RejectedIt

\* C18 witness: a call with the keep pattern "merge" kept the commit
\* "Merge branch 'main'", which the default filter rejects.
C18_Witness ==
  /\ FreshCall /\ last.cfg.keep = patMerge /\ Subject = msgMerge
  /\ KeptIt /\ ~defaultKeep(Subject)

\* C18 witness, second case: calls without a keep pattern rejected "chore:
\* bump deps" and kept "cinema listing added", where no word boundary
\* follows "ci".
C18_WitnessDefault ==
  /\ FreshCall /\ last.cfg = DefaultOptions
  /\ \/ Subject = msgChore /\ RejectedIt
     \/ Subject = msgCinema /\ KeptIt

\* the commits the last call treated as new
NewOfCall == IF last.cfg.force THEN Kept ELSE NewOnes

\* their dates
NewDates == {NewOfCall[i].date : i \in 1..Len(NewOfCall)}

\* the blocks the last call put first: one for each of these dates
NewBlocks == SubSeq(jsonFile.items, 1, Cardinality(NewDates))

\* the redacted texts of the new commits of date d, in the order of the log
TextsOf(d) ==
  LET ofDate == SelectSeq(NewOfCall, LAMBDA c : c.date = d)
  IN  [i \in 1..Len(ofDate) |->
         processMessage(Trim(ofDate[i].message), last.cfg)]

\* the position at which text x comes first in the sequence xs
FirstAt(xs, x) ==
  CHOOSE i \in 1..Len(xs) : xs[i] = x /\ \A k \in 1..(i - 1) : xs[k] # x

\* C19: the blocks a call builds from its new commits come first in the
\* items, one for each date of a new commit, in strictly descending order
\* of the dates; the points of each are the redacted texts of the new
\* commits of that date, each once, in the order in which the texts come
\* first in the log.
C19_NewBlocksOrdered ==
  (Returned /\ NewOfCall # << >>) =>
    /\ Len(jsonFile.items) >= Cardinality(NewDates)
    /\ \A b \in 1..Len(NewBlocks) : DateOf(NewBlocks[b].date) \in NewDates
    /\ \A b, c \in 1..Len(NewBlocks) :
         b < c => DateOf(NewBlocks[b].date) > DateOf(NewBlocks[c].date)
    /\ \A b \in 1..Len(NewBlocks) :
         LET pts == NewBlocks[b].points
             txs == TextsOf(DateOf(NewBlocks[b].date))
         IN  /\ {pts[k] : k \in 1..Len(pts)} = {txs[k] : k \in 1..Len(txs)}
             /\ \A k, m \in 1..Len(pts) :
                  k < m => /\ pts[k] # pts[m]
                           /\ FirstAt(txs, pts[k]) < FirstAt(txs, pts[m])

\* C19 witness: a call built one block from two new commits of one date
\* with different texts: the text of the newer commit is the first point.
C19_Witness ==
  /\ Returned /\ Len(NewOfCall) = 2
  /\ NewOfCall[1].date = NewOfCall[2].date
  /\ NewOfCall[1].message # NewOfCall[2].message
  /\ NewBlocks[1].points = << NewOfCall[1].message, NewOfCall[2].message >>

\* C19 witness, second case: a call built two blocks from new commits of
\* two dates, the block of the later date first.
C19_WitnessTwoDates ==
  /\ Returned /\ Cardinality(NewDates) = 2
  /\ DateOf(NewBlocks[1].date) > DateOf(NewBlocks[2].date)

\* C19 witness, third case: a call built a block with one point from two
\* new commits of one date with the same text.
C19_WitnessRepeat ==
  /\ Returned /\ Len(NewOfCall) = 2
  /\ NewOfCall[1].date = NewOfCall[2].date
  /\ NewOfCall[1].message = NewOfCall[2].message
  /\ NewBlocks[1].points = << NewOfCall[1].message >>

\* C20: after a call that returned, the items of updates.json are the
\* blocks that parsing the content of updates.txt gives, in the same order;
\* what updates.json held before the call has no part in them.
C20_JsonIsParsedText ==
  Returned =>
    /\ jsonFile.exists /\ txtFile.exists
    /\ jsonFile.items = ParseItems(Trim(txtFile.content))

\* C20 witness: a call returned that started with an updates.json holding a
\* block which updates.txt no longer holds at the end, and that left two
\* blocks or more; the block is not in updates.json any more.
C20_Witness ==
  /\ Returned
  /\ Len(jsonFile.items) >= 2
  /\ \E i \in 1..Len(last.pre.json.items) :
       \A k \in 1..Len(jsonFile.items) :
         jsonFile.items[k] # last.pre.json.items[i]
  /\ jsonFile.items = ParseItems(Trim(txtFile.content))

\* C21: every call of fetchGithubCommits settles: a promise that is
\* pending is, later on, resolved or rejected, also when the server never
\* answers
C21_FetchSettles ==
  (fetch.promise = "pending") ~> (fetch.promise \in {"resolved", "rejected"})

\* a request that the server has left unanswered for as long as the clock
\* was read, and whose promise is still pending
C21_WitnessUnanswered ==
  /\ fetch.promise = "pending"
  /\ fetch.wire = "open"
  /\ fetch.events = << >>
  /\ now - fetch.sentAt >= MaxClock

\* the commit of the history that has the id h
CommitOf(h) == history[Len(history) + 1 - h]

\* whether a line of the text is the point of the message m as the options
\* cfg redact it, up to the white space that trim removes at the ends
HasPointLine(content, m, cfg) ==
  LET lines == SplitLines(content)
  IN  \E i \in 1..Len(lines) :
        Trim(lines[i]) = Trim(<<"-", SP>> \o processMessage(Trim(m), cfg))

\* C22: every id stored in updates.index.json is the id of a commit whose
\* message, as redacted by the options of a run, is a point line of
\* updates.txt; the commits a run has just recorded have their line as the
\* options of that run redact it
C22_SeenHaveLines ==
  /\ \A h \in SeenSet(indexFile) :
       /\ h \in 1..Len(history)
       /\ \E cfg \in Options :
            HasPointLine(txtFile.content, CommitOf(h).message, cfg)
  /\ Returned =>
       \A i \in 1..Len(NewOfCall) :
         /\ NewOfCall[i].hash \in SeenSet(indexFile)
         /\ HasPointLine(txtFile.content, NewOfCall[i].message, last.cfg)

\* a run without force has added an id to an index that held one from an
\* earlier run without force
C22_Witness ==
  /\ Returned
  /\ ~last.cfg.force
  /\ last.pre.index.seen = << 1 >>
  /\ SeenList(indexFile) = << 1, 2 >>
  /\ last.pre.txt.content # << >>

\* whether the list xs begins with the list pre
IsPrefix(pre, xs) == Len(pre) <= Len(xs) /\ SubSeq(xs, 1, Len(pre)) = pre

\* C23: a run without force that starts from an index that parses leaves
\* every id of the index in it, the old list being the beginning of the
\* new one; a run after which an id is gone is a run with force
C23_IndexAppendOnly ==
  Returned =>
    /\ (~last.cfg.force /\ last.pre.index.exists /\ last.pre.index.parses) =>
          /\ PreSeen \subseteq SeenSet(indexFile)
          /\ IsPrefix(SeenList(last.pre.index), indexFile.seen)
    /\ ~(PreSeen \subseteq SeenSet(indexFile)) => last.cfg.force

\* a run without force has appended an id to an index that held one
C23_Witness ==
  /\ Returned
  /\ ~last.cfg.force
  /\ last.pre.index.parses
  /\ PreSeen = { 1 }
  /\ SeenSet(indexFile) = { 1, 2 }

\* a run with force has removed an id
C23_WitnessForce ==
  /\ Returned
  /\ last.cfg.force
  /\ PreSeen # {}
  /\ ~(PreSeen \subseteq SeenSet(indexFile))

\* whether no value occurs twice in the list xs
NoRepeats(xs) == \A i, j \in 1..Len(xs) : i # j => xs[i] # xs[j]

\* the dates that head the blocks of updates.txt
BlockDates ==
  LET items == ParseItems(Trim(txtFile.content))
  IN  [i \in 1..Len(items) |-> items[i].date]

\* C24: no date heads two blocks of updates.txt, no two items of
\* updates.json have the same date, and no two items of the feed have the
\* same id
C24_OneBlockPerDate ==
  /\ txtFile.exists => NoRepeats(BlockDates)
  /\ NoRepeats([i \in 1..Len(jsonFile.items) |-> jsonFile.items[i].date])
  /\ NoRepeats([i \in 1..Len(rssFile.items) |-> rssFile.items[i].id])

\* whether the list xs ends with the list post
IsSuffix(post, xs) ==
  Len(post) <= Len(xs) /\ SubSeq(xs, Len(xs) - Len(post) + 1, Len(xs)) = post

\* a run without force that found no index and a text with content
LostIndex ==
  /\ Returned
  /\ ~last.cfg.force
  /\ ~last.pre.index.exists
  /\ last.pre.txt.exists
  /\ Trim(last.pre.txt.content) # << >>

\* C25: a run without force that finds updates.txt with content and no
\* index keeps the old text as the tail of the new text and the old items
\* as the last items of updates.json, leaves the text as it was when it
\* keeps no commit, and leaves an index that holds the ids of the commits
\* it kept and nothing else
C25_ResetOnlyUnderForce ==
  LostIndex =>
    /\ IsSuffix(Trim(last.pre.txt.content) \o << NL >>, txtFile.content)
    /\ IsSuffix(ParseItems(Trim(last.pre.txt.content)), jsonFile.items)
    /\ Kept = << >> => txtFile = last.pre.txt
    /\ Kept # << >> => Len(txtFile.content) > Len(Trim(last.pre.txt.content)) + 1
    /\ indexFile = IndexOf(Hashes(Kept))

\* such a run has put a block in front of the old text
C25_Witness ==
  /\ LostIndex
  /\ Kept # << >>
  /\ Len(txtFile.content) > Len(last.pre.txt.content)

\* such a run has kept no commit
C25_WitnessNoneKept ==
  /\ LostIndex
  /\ Kept = << >>
  /\ indexFile = IndexOf(<< >>)

\* C26: while the lock file is younger than thirty seconds, at most one
\* helper process is executing the generation command
C26_OneExecutes ==
  ~ /\ hook.pc[1] = "exec"
    /\ hook.pc[2] = "exec"
    /\ hook.lock.exists
    /\ HookTime(now) - hook.lock.timestamp < LockMaxAge

\* the files after one more call, without force, over the same commits
NextPlainRun ==
  Generate(Files, [last.cfg EXCEPT !.force = FALSE], last.log, last.at + 1,
           "none")

\* C27: after a run that returned, every commit that the run gave a line
\* in updates.txt has its id in updates.index.json, and a following run
\* without force over the same commits changes neither the text nor the
\* index
C27_ContributorsRecorded ==
  Returned =>
    /\ \A i \in 1..Len(NewOfCall) :
         /\ HasPointLine(txtFile.content, NewOfCall[i].message, last.cfg)
         /\ indexFile.exists /\ indexFile.parses
         /\ \E k \in 1..Len(indexFile.seen) :
              indexFile.seen[k] = NewOfCall[i].hash
    /\ NextPlainRun.txt = txtFile
    /\ NextPlainRun.index = indexFile

\* a run has given two commits their lines
C27_Witness ==
  /\ Returned
  /\ Len(NewOfCall) = 2
  /\ Len(txtFile.content) > 0

\* a run without force in which no fetched commit was both unseen and kept
NothingNew == Returned /\ ~last.cfg.force /\ NewOnes = << >>

\* updates.json and updates.rss were written by the latest call, from the
\* text as it was
FeedsRewritten ==
  /\ jsonFile = JsonOf(last.at, ParseItems(ReadTxt(last.pre.txt, last.cfg)))
  /\ rssFile = RssOf(last.at, ParseItems(ReadTxt(last.pre.txt, last.cfg)))

\* C28 as stated: after a run without force in which no fetched commit is
\* both unseen and kept, updates.txt and updates.index.json are as they
\* were before the run, and updates.json and updates.rss are rewritten
C28_Original ==
  NothingNew =>
    /\ txtFile = last.pre.txt
    /\ indexFile = last.pre.index
    /\ FeedsRewritten

\* C28: after such a run, updates.txt and updates.index.json are as they
\* were before the run when they existed; a text that was missing exists
\* and is empty, an index that was missing exists with an empty seen list;
\* updates.json and updates.rss are rewritten
C28_NothingNewKeepsTextAndIndex ==
  NothingNew =>
    /\ txtFile = (IF last.pre.txt.exists THEN last.pre.txt ELSE TxtOf(<< >>))
    /\ indexFile = (IF last.pre.index.exists THEN last.pre.index
                    ELSE IndexOf(<< >>))
    /\ FeedsRewritten

\* such a run has fetched commits, all of them seen, over a text with
\* content
C28_Witness ==
  /\ NothingNew
  /\ Kept # << >>
  /\ last.pre.txt.content # << >>
  /\ jsonFile.updated_at > last.pre.json.updated_at

\* such a run has found neither the text nor the index
C28_WitnessCreated ==
  /\ NothingNew
  /\ ~last.pre.txt.exists
  /\ ~last.pre.index.exists
  /\ txtFile.exists
  /\ indexFile.exists

\* the points of updates.json
AllPoints ==
  UNION { { jsonFile.items[i].points[k] :
              k \in 1..Len(jsonFile.items[i].points) } :
          i \in 1..Len(jsonFile.items) }

\* C29: after a first run, no point holds an occurrence, in any letter
\* case, of a term of the option hide of that run
C29_NoHiddenTermLeft ==
  (Returned /\ ~last.pre.txt.exists) =>
    \A p \in AllPoints :
      \A k \in 1..Len(TermItems(last.cfg.hide)) :
        Occurrences(p, TermItems(last.cfg.hide)[k]) = {}

\* a first run has rendered a point under an option hide with two terms
C29_WitnessRedacted ==
  /\ Returned
  /\ ~last.pre.txt.exists
  /\ Len(TermItems(last.cfg.hide)) = 2
  /\ AllPoints # {}

\* C30: a body that the handler serves from the cache was generated no
\* longer than the cache expiration before the request it answers
C30_CachedBodyFresh ==
  (handler.reply.status = 200 /\ handler.reply.cached) =>
    HandlerTime(handler.reply.at) - HandlerTime(handler.reply.madeAt)
      <= CacheExpiration

\* the handler has served from the cache a body that another request
\* generated
C30_WitnessCached ==
  /\ handler.reply.status = 200
  /\ handler.reply.cached
  /\ handler.reply.at > handler.reply.madeAt

====
